---- MODULE Spec2Model ----
(***************************************************************************)
(* A model of py_boggle: the trie-backed GameDictionary                    *)
(* (py_boggle/game_dictionary.py) and the GameManager game object          *)
(* (py_boggle/game_manager.py, against the contract of                     *)
(* py_boggle/boggle_game.py).                                              *)
(*                                                                         *)
(* Strings are sequences of one-character strings, so that str.lower(),    *)
(* str.upper() and str.strip() are computed character by character.        *)
(***************************************************************************)
EXTENDS Integers, Sequences, FiniteSets, TLC

\* Longest content of one line of a word file (the line end not counted).
MaxLineLen == 2
\* Most words the list GameDictionary.l holds (caps the lines all loads read).
MaxWords == 2

(***************************************************************************)
(* Characters and the str methods the code calls.                          *)
(***************************************************************************)
LowerChar == {"a", "b"}
UpperChar == {"A", "B"}
White == {" ", "\n"}
\* the characters a line of a word file is written in
Char == {"a", "b", "A"}

ToLower(c) == CASE c = "A" -> "a" [] c = "B" -> "b" [] c = "Y" -> "y" [] OTHER -> c
ToUpper(c) == CASE c = "a" -> "A" [] c = "b" -> "B" [] c = "y" -> "Y" [] OTHER -> c

\* str.lower()
lower(s) == [i \in 1..Len(s) |-> ToLower(s[i])]
\* str.upper()
upper(s) == [i \in 1..Len(s) |-> ToUpper(s[i])]

RECURSIVE lstrip(_)
lstrip(s) == IF s # <<>> /\ Head(s) \in White THEN lstrip(Tail(s)) ELSE s
RECURSIVE rstrip(_)
rstrip(s) ==
  IF s # <<>> /\ s[Len(s)] \in White THEN rstrip(SubSeq(s, 1, Len(s) - 1)) ELSE s
\* str.strip(): leading and trailing whitespace removed
strip(s) == rstrip(lstrip(s))

\* all strings over S of length at most n
StringsUpTo(S, n) == UNION {[1..k -> S] : k \in 0..n}

\* One line as file iteration yields it: its content, indented by a blank or
\* not, and the line end.
Lines ==
  {x \in {pad \o c \o <<"\n">> :
            pad \in {<<>>, <<" ">>}, c \in StringsUpTo(Char, MaxLineLen)} :
     Len(x) <= MaxLineLen + 1}
\* A word file of at most n lines.
Files(n) == UNION {[1..k -> Lines] : k \in 0..n}

(***************************************************************************)
(* Trie.  A TrieNode is named by the path of letters leading to it from    *)
(* the root (the root is <<>>); node.nodes holds letter c exactly when the *)
(* path Append(node, c) is a node, and node.leaf is membership in "leaf".  *)
(***************************************************************************)
EmptyTrie == [nodes |-> {<<>>}, leaf |-> {}]

\* the loop of Trie.insert_word: creates the missing children, ends at the
\* node of the whole word
RECURSIVE insert_loop(_, _, _, _)
insert_loop(nodes, word, i, node) ==
  IF i > Len(word)
  THEN [nodes |-> nodes, node |-> node]
  ELSE LET child == Append(node, word[i])
       IN insert_loop(IF child \notin nodes THEN nodes \cup {child} ELSE nodes,
                      word, i + 1, child)

insert_word(trie, word) ==
  LET r == insert_loop(trie.nodes, word, 1, <<>>)
  IN [nodes |-> r.nodes, leaf |-> trie.leaf \cup {r.node}]

\* the walk shared by check_prefix and check_word: FALSE at the first letter
\* that is no child of the current node, TRUE when the letters are used up
RECURSIVE walk(_, _, _, _)
walk(trie, s, i, node) ==
  IF i > Len(s)
  THEN TRUE
  ELSE IF Append(node, s[i]) \in trie.nodes
       THEN walk(trie, s, i + 1, Append(node, s[i]))
       ELSE FALSE

\* check_prefix were it to ask for a complete word at the end of the walk
check_prefix_leaf(trie, prefix) ==
  walk(trie, prefix, 1, <<>>) /\ prefix \in trie.leaf

\* check_prefix were its walk to stop one letter early
check_prefix_short(trie, prefix) ==
  walk(trie, SubSeq(prefix, 1, Len(prefix) - 1), 1, <<>>)

check_prefix(trie, prefix) == walk(trie, prefix, 1, <<>>)

\* check_word without its word = word.lower()
check_word_nolower(trie, word) == walk(trie, word, 1, <<>>)

check_word(trie, word) == walk(trie, lower(word), 1, <<>>)

(***************************************************************************)
(* GameDictionary                                                          *)
(***************************************************************************)
VARIABLES
  t,        \* GameDictionary.t, the Trie
  l,        \* GameDictionary.l, the list of words in load order
  words,    \* test_dictionary.words: the upper-cased stripped lines of the files loaded
  itState,  \* the list iterator __iter__ handed out: "none", "live", "exhausted"
  itIndex,  \* its index into l
  itOut,    \* what its last __next__ did
  inserted, \* history: the words given to Trie.insert_word, in order
  itYield,  \* history: the words the iterator handed out has returned so far
  prevFull  \* history: what the latest iteration run to its end returned in
            \* all, while no line was loaded since; NoRun otherwise

dictVars == <<t, l, words, itState, itIndex, itOut, inserted, itYield, prevFull>>

NoRun == [run |-> FALSE]
FullRun(seq) == [run |-> TRUE, seq |-> seq]

NoOut == [kind |-> "none"]
Item(w) == [kind |-> "item", value |-> w]
StopIteration == [kind |-> "StopIteration"]

\* load_dictionary were it to put each word at the front of the list
RECURSIVE load_lines_front(_, _, _)
load_lines_front(trie, list, file) ==
  IF file = <<>>
  THEN [t |-> trie, l |-> list]
  ELSE LET word == lower(strip(Head(file)))
       IN load_lines_front(insert_word(trie, word), <<word>> \o list, Tail(file))

\* the body of load_dictionary's loop over the lines of the file
RECURSIVE load_lines(_, _, _)
load_lines(trie, list, file) ==
  IF file = <<>>
  THEN [t |-> trie, l |-> list]
  ELSE LET word == lower(strip(Head(file)))
       IN load_lines(insert_word(trie, word), Append(list, word), Tail(file))

\* GameDictionary.is_prefix
is_prefix(prefix) == check_prefix(t, prefix)

\* GameDictionary.contains
contains(word) == check_word(t, word)

(***************************************************************************)
(* GameManager.  Every method of src/py_boggle/game_manager.py except      *)
(* get_all_words and set_search_tactic consists of one statement,          *)
(*   raise NotImplementedError(...),                                       *)
(* the constructor included: no attribute is ever assigned but self.tactic *)
(* in set_search_tactic.  The methods are modelled as their bodies act on  *)
(* an instance holding the attributes assigned so far.                     *)
(***************************************************************************)
\* Most players a game is asked for.
MaxPlayers == 2
\* Largest board size new_game is asked for.
MaxSize == 2

None == "None"
Return(v) == [kind |-> "return", value |-> v]
Raise(e) == [kind |-> "raise", exc |-> e]
Returned(r) == r.kind = "return"

SEARCH_BOARD == "SEARCH_BOARD"
SEARCH_DICT == "SEARCH_DICT"
SearchTactic == {SEARCH_BOARD, SEARCH_DICT}
\* BoggleGame.SEARCH_DEFAULT
SEARCH_DEFAULT == SEARCH_BOARD
\* self.tactic before any assignment to it: the attribute does not exist
Unset == "unset"

\* boards given to set_game, in row-major order: two square, two not
Boards ==
  { << <<"a">> >>,
    << <<"a", "b">>, <<"b", "a">> >>,
    << <<"a", "b">> >>,
    << <<"a", "b">>, <<"a">> >> }
IsSquare(board) == \A r \in 1..Len(board) : Len(board[r]) = Len(board)

\* words given to add_word, in either letter case
GameWords == {<<"a", "b">>, <<"A", "B">>, <<"a", "B">>, <<"b", "a">>}
Players == 0..(MaxPlayers - 1)

\* GameManager.__init__
GameManager_init == Raise("NotImplementedError")
\* GameManager.new_game
new_game(size, num_players, dict) == Raise("NotImplementedError")
\* GameManager.get_board
get_board == Raise("NotImplementedError")
\* GameManager.add_word
add_word(word, player) == Raise("NotImplementedError")
\* GameManager.get_last_added_word
get_last_added_word == Raise("NotImplementedError")
\* GameManager.set_game
set_game(board) == Raise("NotImplementedError")
\* GameManager.get_scores
get_scores == Raise("NotImplementedError")
\* GameManager.__dictionary_driven_search
dictionary_driven_search == Raise("NotImplementedError")
\* GameManager.__board_driven_search
board_driven_search == Raise("NotImplementedError")

\* GameManager.get_all_words on an instance whose self.tactic is tac: the
\* search it enters and what the call does.  Reading an attribute that was
\* never assigned raises AttributeError before any search is entered.
get_all_words(tac) ==
  IF tac = Unset
  THEN [searched |-> "none", ret |-> Raise("AttributeError")]
  ELSE IF tac = SEARCH_BOARD
       THEN [searched |-> "board", ret |-> board_driven_search]
       ELSE [searched |-> "dict", ret |-> dictionary_driven_search]

VARIABLES
  tactic,       \* self.tactic, Unset while the attribute does not exist
  call,         \* the last call made on the game: its method and arguments
  ret,          \* what that call did: Return(value) or Raise(exception)
  searched,     \* the search the last get_all_words entered
  askedPlayers, \* history: num_players of the latest new_game call, 0 before it
  givenTactic,  \* history: the tactic of the latest set_search_tactic call, Unset before it
  credited      \* history: [player, word, points] of each add_word that returned points > 0

gameVars == <<tactic, call, ret, searched, askedPlayers, givenTactic, credited>>
(***************************************************************************)
(* TUI (py_boggle/ui/tui.py): the input loop and process_word.             *)
(*                                                                         *)
(* self.dict is the GameDictionary above, loaded from the words file.      *)
(* self.game is an instance of whatever subclass of BoggleGame             *)
(* construct_subclass_of finds: the GameManager above, whose calls raise,  *)
(* or a game whose calls return what BoggleGame documents.                 *)
(***************************************************************************)
\* Most characters typed into the input buffer.
MaxInput == 5
\* process_word: the length below which a word is too short
MinWordLen == 4

\* the keys typed besides enter, backspace, CTRL+D and CTRL+C
KeyChars == {"a", "y", "Y", " "}

\* the words files the TUI is started with
TuiFiles ==
  { << <<"y", "a", "y", "a", "\n">> >>,
    << <<"a", "y", "a", "y", "\n">>, <<"y", "a", "\n">> >> }

\* points a game returns from add_word
TuiPoints == {0, 1, 2}
\* a path a game returns from get_last_added_word
SomePath == << <<0, 0>>, <<0, 1>> >>

VARIABLES
  gameKind,         \* the class of self.game: "GameManager" or "working"
  input_buf,        \* TUI.input_buf
  input_feedback,   \* TUI.input_feedback (which message it holds)
  found_words,      \* TUI.found_words
  last_word_coords, \* TUI.last_word_coords
  reprompt,         \* input_loop's reprompt
  loop,             \* input_loop: "running", "returned" (run = False) or
                    \* "raised" (an exception left it)
  key,              \* history: the key of the latest step
  gameCalls         \* history: the calls the latest step made on self.game,
                    \* each with what it did

tuiVars == <<gameKind, input_buf, input_feedback, found_words, last_word_coords,
             reprompt, loop, key, gameCalls>>

IsGameManager == gameKind = "GameManager"

\* what self.game.<method>(...) can do
GameAddWord(word, player) ==
  IF IsGameManager THEN {add_word(word, player)} ELSE {Return(p) : p \in TuiPoints}
GameGetLastAddedWord ==
  IF IsGameManager THEN {get_last_added_word} ELSE {Return(None), Return(SomePath)}
GameGetScores == IF IsGameManager THEN get_scores ELSE Return(<<0>>)
GameGetBoard == IF IsGameManager THEN get_board ELSE Return(<< <<"a">> >>)
GameGetAllWords == IF IsGameManager THEN get_all_words(tactic).ret ELSE Return({})
GameNewGame(size, num_players, dict) ==
  IF IsGameManager THEN new_game(size, num_players, dict) ELSE Return(None)

Called(op, r) == [op |-> op, ret |-> r]
CalledAddWord(word, player, r) ==
  [op |-> "add_word", word |-> word, player |-> player, ret |-> r]

\* the calls of a sequence of calls up to and including the first that raised
RECURSIVE UpToRaise(_)
UpToRaise(calls) ==
  IF calls = <<>> THEN <<>>
  ELSE IF Returned(Head(calls).ret) THEN <<Head(calls)>> \o UpToRaise(Tail(calls))
       ELSE <<Head(calls)>>
AllReturned(calls) == \A i \in 1..Len(calls) : Returned(calls[i].ret)

\* what a handler leaves: the attributes, the calls made, whether it raised
Outcome(feedback, found, coords, calls) ==
  [input_feedback |-> feedback, found_words |-> found, last_word_coords |-> coords,
   gameCalls |-> UpToRaise(calls), raised |-> ~AllReturned(calls)]

\* the redrawing after a word was added: draw_info, draw_board
DrawCalls == <<Called("get_scores", GameGetScores), Called("get_board", GameGetBoard)>>

\* process_word were it not to test the length of the word
process_word_nolen(line, addRet, lastRet) ==
  LET input == lower(strip(line))
      same == Outcome(input_feedback, found_words, last_word_coords, <<>>)
      added == CalledAddWord(input, 0, addRet)
  IN IF input = <<>> THEN same
     ELSE IF ~contains(input)
     THEN Outcome("not_legal", found_words, last_word_coords, <<>>)
     ELSE IF ~Returned(addRet)
     THEN Outcome(input_feedback, found_words, last_word_coords, <<added>>)
     ELSE IF addRet.value = 0
     THEN Outcome(IF input \in found_words THEN "already_found" ELSE "not_on_board",
                  found_words, last_word_coords, <<added>>)
     ELSE Outcome("points", found_words \cup {input}, last_word_coords, <<added>>)

\* TUI.process_word(line), add_word doing addRet and get_last_added_word lastRet
process_word(line, addRet, lastRet) ==
  LET input == lower(strip(line))
      added == CalledAddWord(input, 0, addRet)
      last == Called("get_last_added_word", lastRet)
  IN IF input = <<>>
     THEN Outcome(input_feedback, found_words, last_word_coords, <<>>)
     ELSE IF Len(input) < MinWordLen
     THEN Outcome("too_short", found_words, last_word_coords, <<>>)
     ELSE IF ~contains(input)
     THEN Outcome("not_legal", found_words, last_word_coords, <<>>)
     ELSE IF ~Returned(addRet)
     THEN Outcome(input_feedback, found_words, last_word_coords, <<added>>)
     ELSE IF addRet.value = 0
     THEN Outcome(IF input \in found_words THEN "already_found" ELSE "not_on_board",
                  found_words, last_word_coords, <<added>>)
     ELSE IF ~Returned(lastRet)
     THEN Outcome("points", found_words \cup {input}, last_word_coords, <<added, last>>)
     ELSE IF lastRet.value = None
     THEN Outcome("points", found_words \cup {input}, last_word_coords, <<added, last>>)
     ELSE Outcome("points", found_words \cup {input}, lastRet.value,
                  <<added, last>> \o DrawCalls)

\* TUI.BOARD_SIZE
BOARD_SIZE == 4

\* TUI.new_game() with no custom board: game.new_game, check_board_size, the
\* attributes cleared, draw_all
tui_new_game ==
  LET calls == <<Called("new_game", GameNewGame(BOARD_SIZE, 1, t)),
                 Called("get_board", GameGetBoard),
                 Called("get_board", GameGetBoard),
                 Called("get_scores", GameGetScores)>>
  IN IF AllReturned(calls)
     THEN Outcome("", {}, <<>>, calls)
     ELSE Outcome(input_feedback, found_words, last_word_coords, calls)

\* str.startswith("y") of the lower-cased line
StartsWithY(line) == line # <<>> /\ lower(line)[1] = "y"

vars == <<t, l, words, itState, itIndex, itOut, inserted, itYield, prevFull,
          tactic, call, ret, searched, askedPlayers, givenTactic, credited,
          gameKind, input_buf, input_feedback, found_words, last_word_coords,
          reprompt, loop, key, gameCalls>>

\* the TUI as TUI.__init__ leaves it and input_loop starts
TuiInit ==
  /\ input_buf = <<>>
  /\ input_feedback = ""
  /\ found_words = {}
  /\ last_word_coords = <<>>
  /\ reprompt = FALSE
  /\ loop = "running"
  /\ key = "none"
  /\ gameCalls = <<>>

Init ==
  /\ gameKind = "GameManager"
  /\ TuiInit
  /\ t = EmptyTrie
  /\ l = <<>>
  /\ words = {}
  /\ itState = "none"
  /\ itIndex = 0
  /\ itOut = NoOut
  /\ inserted = <<>>
  /\ itYield = <<>>
  /\ prevFull = NoRun
  /\ tactic = Unset
  /\ call = [op |-> "none"]
  /\ ret = Return(None)
  /\ searched = "none"
  /\ askedPlayers = 0
  /\ givenTactic = Unset
  /\ credited = {}

(***************************************************************************)
(* The operations of GameDictionary                                        *)
(***************************************************************************)
\* load_dictionary(filename), the file holding the lines "file"
LoadDictionary ==
  \E file \in Files(MaxWords - Len(l)) :
    LET r == load_lines(t, l, file)
    IN /\ t' = r.t
       /\ l' = r.l
       /\ words' = words \cup {upper(strip(file[i])) : i \in 1..Len(file)}
       /\ inserted' = inserted \o [i \in 1..Len(file) |-> lower(strip(file[i]))]
       /\ prevFull' = IF file = <<>> THEN prevFull ELSE NoRun
       /\ UNCHANGED <<itState, itIndex, itOut, itYield>>
       /\ UNCHANGED <<gameVars, tuiVars>>

\* __iter__: a new iterator over the list l
Iter ==
  /\ itState' = "live"
  /\ itIndex' = 0
  /\ itOut' = NoOut
  /\ itYield' = <<>>
  /\ UNCHANGED <<t, l, words, inserted, prevFull>>
  /\ UNCHANGED <<gameVars, tuiVars>>

\* __next__ were it to start over at the end of the list
IterNextWrap ==
  /\ itState # "none"
  /\ IF itState = "live" /\ itIndex < Len(l)
     THEN /\ itOut' = Item(l[itIndex + 1])
          /\ itIndex' = itIndex + 1
          /\ itYield' = Append(itYield, l[itIndex + 1])
     ELSE /\ itOut' = NoOut
          /\ itIndex' = 0
          /\ itYield' = <<>>
  /\ itState' = "live"
  /\ UNCHANGED <<t, l, words, inserted, prevFull>>
  /\ UNCHANGED <<gameVars, tuiVars>>

\* __next__ on the iterator handed out: the element at its index, or
\* StopIteration at the end of the list and ever after
IterNext ==
  /\ itState # "none"
  /\ IF itState = "live" /\ itIndex < Len(l)
     THEN /\ itOut' = Item(l[itIndex + 1])
          /\ itIndex' = itIndex + 1
          /\ itState' = "live"
          /\ itYield' = Append(itYield, l[itIndex + 1])
          /\ prevFull' = prevFull
     ELSE /\ itOut' = StopIteration
          /\ itIndex' = itIndex
          /\ itState' = "exhausted"
          /\ itYield' = itYield
          /\ prevFull' = IF itState = "live" THEN FullRun(itYield) ELSE prevFull
  /\ UNCHANGED <<t, l, words, inserted>>
  /\ UNCHANGED <<gameVars, tuiVars>>

Next == LoadDictionary \/ Iter \/ IterNext

Spec == Init /\ [][Next]_vars

(***************************************************************************)
(* The operations of GameManager.  The history variables record what the   *)
(* calls were given and what they returned; a new_game or set_game that    *)
(* returns starts a new game and empties the words credited.               *)
(***************************************************************************)
\* GameManager()
Construct ==
  /\ call' = [op |-> "__init__"]
  /\ ret' = GameManager_init
  /\ UNCHANGED <<tactic, searched, askedPlayers, givenTactic, credited>>
  /\ UNCHANGED <<dictVars, tuiVars>>

NewGame ==
  \E size \in 1..MaxSize, num_players \in 1..MaxPlayers :
    /\ call' = [op |-> "new_game", size |-> size, num_players |-> num_players]
    /\ ret' = new_game(size, num_players, t)
    /\ askedPlayers' = num_players
    /\ credited' = IF Returned(ret') THEN {} ELSE credited
    /\ UNCHANGED <<tactic, searched, givenTactic>>
    /\ UNCHANGED <<dictVars, tuiVars>>

GetBoard ==
  /\ call' = [op |-> "get_board"]
  /\ ret' = get_board
  /\ UNCHANGED <<tactic, searched, askedPlayers, givenTactic, credited>>
  /\ UNCHANGED <<dictVars, tuiVars>>

AddWord ==
  \E word \in GameWords, player \in Players :
    /\ call' = [op |-> "add_word", word |-> word, player |-> player]
    /\ ret' = add_word(word, player)
    /\ credited' =
         IF Returned(ret') /\ ret'.value # 0
         THEN credited \cup {[player |-> player, word |-> lower(word),
                             points |-> ret'.value]}
         ELSE credited
    /\ UNCHANGED <<tactic, searched, askedPlayers, givenTactic>>
    /\ UNCHANGED <<dictVars, tuiVars>>

GetLastAddedWord ==
  /\ call' = [op |-> "get_last_added_word"]
  /\ ret' = get_last_added_word
  /\ UNCHANGED <<tactic, searched, askedPlayers, givenTactic, credited>>
  /\ UNCHANGED <<dictVars, tuiVars>>

SetGame ==
  \E board \in Boards :
    /\ call' = [op |-> "set_game", board |-> board]
    /\ ret' = set_game(board)
    /\ credited' = IF Returned(ret') THEN {} ELSE credited
    /\ UNCHANGED <<tactic, searched, askedPlayers, givenTactic>>
    /\ UNCHANGED <<dictVars, tuiVars>>

GetAllWords ==
  /\ call' = [op |-> "get_all_words"]
  /\ ret' = get_all_words(tactic).ret
  /\ searched' = get_all_words(tactic).searched
  /\ UNCHANGED <<tactic, askedPlayers, givenTactic, credited>>
  /\ UNCHANGED <<dictVars, tuiVars>>

\* set_search_tactic(tactic): self.tactic = tactic
SetSearchTactic ==
  \E tac \in SearchTactic :
    /\ call' = [op |-> "set_search_tactic", tactic |-> tac]
    /\ tactic' = tac
    /\ givenTactic' = tac
    /\ ret' = Return(None)
    /\ UNCHANGED <<searched, askedPlayers, credited>>
    /\ UNCHANGED <<dictVars, tuiVars>>

GetScores ==
  /\ call' = [op |-> "get_scores"]
  /\ ret' = get_scores
  /\ UNCHANGED <<tactic, searched, askedPlayers, givenTactic, credited>>
  /\ UNCHANGED <<dictVars, tuiVars>>

NextGame ==
  \/ Construct
  \/ NewGame
  \/ GetBoard
  \/ AddWord
  \/ GetLastAddedWord
  \/ SetGame
  \/ GetAllWords
  \/ SetSearchTactic
  \/ GetScores

SpecGame == Init /\ [][NextGame]_vars

(***************************************************************************)
(* TUI.input_loop, one step for each key wait_for_input reads              *)
(***************************************************************************)
InitTui ==
  /\ gameKind \in {"GameManager", "working"}
  /\ TuiInit
  /\ \E file \in TuiFiles :
       LET r == load_lines(EmptyTrie, <<>>, file)
       IN /\ t = r.t
          /\ l = r.l
          /\ words = {upper(strip(file[i])) : i \in 1..Len(file)}
          /\ inserted = r.l
  /\ itState = "none"
  /\ itIndex = 0
  /\ itOut = NoOut
  /\ itYield = <<>>
  /\ prevFull = NoRun
  /\ tactic = Unset
  /\ call = [op |-> "none"]
  /\ ret = Return(None)
  /\ searched = "none"
  /\ askedPlayers = 0
  /\ givenTactic = Unset
  /\ credited = {}

\* what a handler left, assigned
Leave(o) ==
  /\ input_feedback' = o.input_feedback
  /\ found_words' = o.found_words
  /\ last_word_coords' = o.last_word_coords
  /\ gameCalls' = o.gameCalls
  /\ loop' = IF o.raised THEN "raised" ELSE "running"

\* wait_for_input: a one-character key
KeyChar ==
  \E c \in KeyChars :
    /\ loop = "running"
    /\ Len(input_buf) < MaxInput
    /\ input_buf' = Append(input_buf, c)
    /\ key' = "char"
    /\ gameCalls' = <<>>
    /\ UNCHANGED <<gameKind, input_feedback, found_words, last_word_coords, reprompt, loop>>
    /\ UNCHANGED <<dictVars, gameVars>>

\* wait_for_input: a backspace key
KeyBackspace ==
  /\ loop = "running"
  /\ input_buf' = IF input_buf = <<>> THEN <<>>
                  ELSE SubSeq(input_buf, 1, Len(input_buf) - 1)
  /\ key' = "backspace"
  /\ gameCalls' = <<>>
  /\ UNCHANGED <<gameKind, input_feedback, found_words, last_word_coords, reprompt, loop>>
  /\ UNCHANGED <<dictVars, gameVars>>

\* wait_for_input returns the line on the enter key; input_loop's try body
KeyEnter ==
  /\ loop = "running"
  /\ input_buf' = <<>>
  /\ key' = "enter"
  /\ IF ~reprompt
     THEN /\ \E addRet \in GameAddWord(lower(strip(input_buf)), 0),
                lastRet \in GameGetLastAddedWord :
               Leave(process_word(input_buf, addRet, lastRet))
          /\ UNCHANGED reprompt
     ELSE IF StartsWithY(input_buf)
     THEN /\ Leave(tui_new_game)
          /\ reprompt' = IF tui_new_game.raised THEN reprompt ELSE FALSE
     ELSE /\ loop' = "returned"
          /\ gameCalls' = <<>>
          /\ UNCHANGED <<input_feedback, found_words, last_word_coords, reprompt>>
  /\ UNCHANGED gameKind
  /\ UNCHANGED <<dictVars, gameVars>>

\* wait_for_input raises EOFError on CTRL+D; input_loop's handler of it
KeyCtrlD ==
  LET shown == Called("get_all_words", GameGetAllWords)
  IN /\ loop = "running"
     /\ key' = "ctrl_d"
     /\ reprompt' = TRUE
     /\ gameCalls' = <<shown>>
     /\ IF Returned(shown.ret)
        THEN /\ input_feedback' = "new_game?"
             /\ UNCHANGED loop
        ELSE /\ loop' = "raised"
             /\ UNCHANGED input_feedback
     /\ UNCHANGED <<gameKind, input_buf, found_words, last_word_coords>>
     /\ UNCHANGED <<dictVars, gameVars>>

\* wait_for_input raises KeyboardInterrupt on CTRL+C; input_loop's handler of it
KeyCtrlC ==
  /\ loop = "running"
  /\ key' = "ctrl_c"
  /\ loop' = "returned"
  /\ gameCalls' = <<>>
  /\ UNCHANGED <<gameKind, input_buf, input_feedback, found_words, last_word_coords,
                 reprompt>>
  /\ UNCHANGED <<dictVars, gameVars>>

NextTui ==
  \/ KeyChar
  \/ KeyBackspace
  \/ KeyEnter
  \/ KeyCtrlD
  \/ KeyCtrlC

SpecTui == InitTui /\ [][NextTui]_vars

(***************************************************************************)
(* Properties of GameDictionary, checked under Spec                        *)
(***************************************************************************)
\* the strings a lookup is asked about: either letter case, any mix
Queries == StringsUpTo(LowerChar \cup UpperChar, MaxLineLen)
\* the words stored: the elements of l
Stored == {l[i] : i \in 1..Len(l)}

\* C1: after load_dictionary, contains(q) is True for every word of the
\* files loaded, queried in its upper-cased form (as test_contains_all does)
\* and in every other letter case.
C1_ContainsLoaded ==
  \A s \in words : \A q \in Queries : lower(q) = lower(s) => contains(q)

\* C1 happens: a word of two letters was loaded and is found in upper case,
\* a form that differs from the stored one.
C1_Witness ==
  \E s \in words : Len(s) >= 2 /\ s \notin Stored /\ lower(s) \in Stored /\ contains(s)

\* C2: contains is an exact match: contains(q) is True only if the
\* lower-cased q was itself inserted as a word.
C2_ExactMatch ==
  \A q \in Queries : contains(q) => lower(q) \in Stored

\* C3: every leading slice w[0:k], 0 <= k <= len(w), of every stored word w
\* is a prefix for is_prefix, the empty string and the whole word included.
C3_PrefixesOfStored ==
  \A w \in Stored : \A k \in 0..Len(w) : is_prefix(SubSeq(w, 1, k))

\* C3 happens: a stored word has a proper non-empty leading slice.
C3_Witness ==
  \E w \in Stored : Len(w) >= 2 /\ is_prefix(SubSeq(w, 1, 1)) /\ SubSeq(w, 1, 1) \notin Stored

(***************************************************************************)
(* Properties of GameManager, checked under SpecGame                       *)
(***************************************************************************)
OtherTactic(tac) == IF tac = SEARCH_BOARD THEN SEARCH_DICT ELSE SEARCH_BOARD

\* the points credited to player p: the sum over the words recorded for p
RECURSIVE SumPoints(_)
SumPoints(S) ==
  IF S = {} THEN 0
  ELSE LET c == CHOOSE x \in S : TRUE IN c.points + SumPoints(S \ {c})
Score(p) == SumPoints({c \in credited : c.player = p})

\* whether a word is already credited to some player, in any letter case
Claimed(word) == \E c \in credited : c.word = lower(word)

\* C4: under either tactic get_all_words returns a set of words, the same
\* set as under the other tactic (same board, same dictionary).
C4_TacticsAgree ==
  (call.op = "get_all_words" /\ tactic \in SearchTactic) =>
    /\ Returned(ret)
    /\ Returned(get_all_words(OtherTactic(tactic)).ret)
    /\ ret.value = get_all_words(OtherTactic(tactic)).ret.value

\* C5: add_word returns the points of the word, and for a word already
\* credited to any player (in any letter case) it returns 0 and leaves the
\* words credited, hence the scores, as they were.
C5_CreditedOnce ==
  [][call'.op = "add_word" =>
       /\ Returned(ret')
       /\ Claimed(call'.word) => (ret'.value = 0 /\ credited' = credited)]_vars

\* C6: once a game was asked for with new_game, get_scores returns one entry
\* per player, each the sum of the points of the words recorded for that player.
C6_ScoresAreSums ==
  (call.op = "get_scores" /\ askedPlayers > 0) =>
    /\ Returned(ret)
    /\ Len(ret.value) = askedPlayers
    /\ \A p \in 0..(askedPlayers - 1) : ret.value[p + 1] = Score(p)

\* C7: set_game with a square board returns, makes that board the board of
\* the game, empties the words credited (all scores zero), and leaves the
\* dictionary and the tactic as they were.
C7_SetGameResets ==
  [][(call'.op = "set_game" /\ IsSquare(call'.board)) =>
       /\ Returned(ret')
       /\ get_board = Return(call'.board)
       /\ credited' = {}
       /\ tactic' = tactic
       /\ t' = t /\ l' = l]_vars

\* C8: set_game with a board that is not square signals InvalidBoard and
\* leaves the words credited and the tactic as they were.
C8_NonSquareRejected ==
  [][(call'.op = "set_game" /\ ~IsSquare(call'.board)) =>
       /\ ret' = Raise("InvalidBoard")
       /\ credited' = credited
       /\ tactic' = tactic]_vars

\* C9: get_last_added_word returns None while no add_word has succeeded in
\* the game, and a path (not None) once one has.
C9_LastAddedWord ==
  call.op = "get_last_added_word" =>
    /\ Returned(ret)
    /\ (credited = {}) <=> (ret.value = None)

\* C10: get_all_words enters the search of the active tactic, the one given
\* to the latest set_search_tactic, SEARCH_DEFAULT when none was given:
\* the board-driven search for SEARCH_BOARD, the dictionary-driven otherwise.
C10_Dispatch ==
  call.op = "get_all_words" =>
    LET active == IF givenTactic = Unset THEN SEARCH_DEFAULT ELSE givenTactic
    IN searched = IF active = SEARCH_BOARD THEN "board" ELSE "dict"

\* The part of C10 the code does: once set_search_tactic was called,
\* get_all_words enters the search of the tactic it was last given.
DispatchOnceSet ==
  (call.op = "get_all_words" /\ givenTactic # Unset) =>
    searched = IF givenTactic = SEARCH_BOARD THEN "board" ELSE "dict"

(***************************************************************************)
(* Further properties of GameDictionary, checked under Spec                *)
(***************************************************************************)
\* C11: is_prefix is True for every leading slice s[:idx], 0 <= idx < len(s),
\* of every word s of the files loaded, the slice given in upper case (the
\* slices test_prefixes draws).
C11_UpperPrefixes ==
  \A s \in words : \A idx \in 0..(Len(s) - 1) : is_prefix(SubSeq(s, 1, idx))

\* C12: an iteration returns the stored words in insertion order, from the
\* first word on: what it has returned is always a leading part of the words
\* inserted, an iteration run to its end has returned them all, and the same
\* sequence as the iteration run to its end before it when no line was
\* loaded in between.
C12_IterationOrder ==
  [][/\ itState' # "none" => itYield' = SubSeq(inserted', 1, Len(itYield'))
     /\ (itState = "live" /\ itState' = "exhausted") =>
          /\ itYield' = inserted'
          /\ prevFull # NoRun => itYield' = prevFull.seq]_vars

\* C12 happens: after an iteration over two words ran to its end and nothing
\* was loaded since, a new iteration is under way and has returned a word.
C12_Witness ==
  /\ prevFull # NoRun
  /\ Len(prevFull.seq) >= 2
  /\ itState = "live"
  /\ Len(itYield) >= 1

\* C13: an iteration ends: __next__ returns at most len(l) words, and called
\* after the last stored word (at once, on an empty dictionary) it raises
\* StopIteration.
C13_IterationEnds ==
  [][IterNext =>
       /\ itIndex >= Len(l) => itOut' = StopIteration
       /\ l = <<>> => itOut' = StopIteration
       /\ Len(itYield') <= Len(l')]_vars

\* C13 happens: StopIteration was raised after the last of the stored words.
C13_Witness ==
  itState = "exhausted" /\ itOut = StopIteration /\ itYield = l /\ Len(l) >= 1

\* C14: loading words that are all stored already changes no observable:
\* the list iterated, contains and is_prefix stay as they were.
C14_InsertIdempotent ==
  [][(/\ inserted' # inserted
      /\ \A i \in (Len(inserted) + 1)..Len(inserted') : inserted'[i] \in Stored) =>
       /\ l' = l
       /\ \A q \in Queries : /\ contains(q)' = contains(q)
                             /\ is_prefix(q)' = is_prefix(q)]_vars

\* C15: empty lines are skipped: the empty string is not a stored word (not
\* in the list, not marked as a word in the trie) and no iteration returns it.
C15_EmptyLinesSkipped ==
  /\ <<>> \notin Stored
  /\ <<>> \notin t.leaf
  /\ itOut # Item(<<>>)

\* C16: is_prefix(p) is True for a non-empty p only if some stored word
\* starts with p.
C16_PrefixHasWord ==
  \A p \in Queries \ {<<>>} :
    is_prefix(p) => \E w \in Stored : Len(w) >= Len(p) /\ SubSeq(w, 1, Len(p)) = p

\* C16 happens: words are stored, a non-empty string that is no stored word
\* is reported as a prefix, and another string is not.
C16_Witness ==
  /\ \E p \in Queries \ {<<>>} : is_prefix(p) /\ p \notin Stored
  /\ \E p \in Queries : ~is_prefix(p)

(***************************************************************************)
(* Properties of the TUI, checked under SpecTui                            *)
(***************************************************************************)
\* the positions of the add_word calls among calls
AddWordCalls(calls) == {i \in 1..Len(calls) : calls[i].op = "add_word"}

\* C18: TUI.process_word calls game.add_word only when the stripped,
\* lower-cased input has at least 4 characters and dict.contains(input) is
\* True; for an empty, too-short or non-dictionary input the game is not
\* called at all, and a word enters found_words only when add_word returned a
\* non-zero point value for it.
C18_ProcessWord ==
  [][(key' = "enter" /\ loop = "running" /\ ~reprompt) =>
       LET input == lower(strip(input_buf))
           valid == Len(input) >= MinWordLen /\ contains(input)
       IN /\ AddWordCalls(gameCalls') # {} => valid
          /\ ~valid => gameCalls' = <<>>
          /\ \A w \in found_words' \ found_words :
               /\ w = input
               /\ \E i \in AddWordCalls(gameCalls') :
                    /\ gameCalls'[i].word = w
                    /\ Returned(gameCalls'[i].ret)
                    /\ gameCalls'[i].ret.value # 0]_vars

\* a submitted line was processed: add_word was called with a word of the
\* dictionary, returned points, and the word is in found_words
C18_Witness ==
  /\ key = "enter"
  /\ gameCalls # <<>>
  /\ gameCalls[1].op = "add_word"
  /\ gameCalls[1].word = <<"y", "a", "y", "a">>
  /\ Returned(gameCalls[1].ret)
  /\ gameCalls[1].ret.value # 0
  /\ gameCalls[1].word \in found_words

\* what C19 says of one step of input_loop
C19_Step ==
  /\ (key' = "ctrl_d" /\ loop = "running") =>
       /\ reprompt'
       /\ loop' = "running"
  /\ (key' = "enter" /\ loop = "running" /\ reprompt) =>
       /\ AddWordCalls(gameCalls') = {}
       /\ found_words' \subseteq found_words
       /\ input_feedback' \in {input_feedback, ""}
       /\ StartsWithY(input_buf) =>
            /\ gameCalls' # <<>>
            /\ gameCalls'[1].op = "new_game"
            /\ Returned(gameCalls'[1].ret)
            /\ found_words' = {}
            /\ ~reprompt'
            /\ loop' = "running"
       /\ ~StartsWithY(input_buf) => loop' = "returned"
  /\ (key' = "ctrl_c" /\ loop = "running") => loop' = "returned"

InputLoopOfWorkingGame == [][gameKind = "working" => C19_Step]_vars

====
